---- MODULE Spec2Model ----
(***************************************************************************)
(* Model of etl.py: the Spark job that turns the song metadata and the     *)
(* event log into the star schema songs, artists, users, time, songplays.  *)
(*                                                                         *)
(* A dataframe is a bag (multiset) of rows; a row is a record.  A column   *)
(* value v is the one-element tuple <<v>> and SQL NULL is the empty tuple, *)
(* so that a nullable column keeps one type.  The epoch-millisecond column *)
(* ts (about 1.5 * 10^12) is the pair <<q, r>> with ts = q * 1000 + r and  *)
(* 0 <= r < 1000.  A string built by strftime is a sequence of one-        *)
(* character strings.  Local time is UTC.                                  *)
(***************************************************************************)
EXTENDS Integers, Sequences, FiniteSets, Bags, TLC

VARIABLES song_data, log_data, store, pc, failed_at, runs

vars == <<song_data, log_data, store, pc, failed_at, runs>>

-----------------------------------------------------------------------------
(* Bounds *)

MaxSongRecords == 3
MaxLogEvents == 3
MaxRuns == 2

-----------------------------------------------------------------------------
(* Column values *)

Null == <<>>
V(x) == <<x>>

\* SQL equality of an equi-join or a filter: NULL equals nothing
SqlEq(a, b) == a # Null /\ b # Null /\ a = b

\* distinct / dropDuplicates: every row once
Distinct(B) == SetToBag(BagToSet(B))

\* filter / where: the rows of B that are in the set keep, with their multiplicity
Where(B, keep) == [r \in BagToSet(B) \cap keep |-> B[r]]

-----------------------------------------------------------------------------
(* Input records *)

SongRecord(sid, title, aid, aname, yr, dur) ==
  [song_id |-> sid, title |-> title, artist_id |-> aid, artist_name |-> aname,
   artist_location |-> Null, artist_latitude |-> Null, artist_longitude |-> Null,
   year |-> yr, duration |-> dur]

R1 == SongRecord(V("S1"), V("t"), V("A"), V("nA"), V(2000), V(200))
R2 == SongRecord(V("S2"), V("t"), V("B"), V("nB"), V(0), V(200))
R3 == SongRecord(V("S3"), V("u"), V("B"), V("nA"), V(2001), V(300))
R4 == SongRecord(V("S4"), V("u"), V("A"), V("nA"), V(2001), V(300))
R5 == SongRecord(V("S5"), Null, V("A"), V("nA"), V(0), Null)

SongRecords == {R1, R2, R3, R4, R5}

LogEvent(page, artist, song, length, ts, uid, level, item) ==
  [page |-> page, artist |-> artist, song |-> song, length |-> length, ts |-> ts,
   userId |-> uid, level |-> level, itemInSession |-> item,
   firstName |-> V("f"), lastName |-> V("l"), gender |-> V("F"),
   location |-> V("loc"), sessionId |-> V(1), userAgent |-> V("ua")]

\* 1541121934796 ms = 2018-11-02 01:25:34.796 UTC, a Friday, ISO week 44
T1 == <<1541121934, 796>>
\* the same second, another millisecond
T2 == <<1541121934, 1>>
\* 951868799999 ms = 2000-02-29 23:59:59.999 UTC, a Tuesday, ISO week 9
T3 == <<951868799, 999>>
\* 1483228800000 ms = 2017-01-01 00:00:00.000 UTC, a Sunday, ISO week 52
T4 == <<1483228800, 0>>

E1 == LogEvent(V("NextSong"), V("nA"), V("t"), V(200), T1, V("8"), V("free"), V(0))
E1b == LogEvent(V("NextSong"), V("nA"), V("t"), V(200), T1, V("8"), V("free"), V(1))
E2 == LogEvent(V("NextSong"), V("nA"), V("t"), V(200), T2, V("8"), V("paid"), V(2))
E3 == LogEvent(V("NextSong"), V("nA"), V("u"), V(300), T3, V("8"), V("free"), V(3))
E4 == LogEvent(V("Home"), Null, Null, Null, T4, V("9"), V("free"), V(4))
E5 == LogEvent(Null, V("nA"), V("t"), V(200), T4, V("10"), V("free"), V(5))
E6 == LogEvent(V("NextSong"), V("nB"), V("t"), V(200), T4, V("8"), V("free"), V(6))
E7 == LogEvent(V("NextSong"), V("nA"), Null, Null, T3, V("11"), V("paid"), V(7))

LogEvents == {E1, E1b, E2, E3, E4, E5, E6, E7}

UpTo(S, n) == {x \in SUBSET S : Cardinality(x) <= n}

-----------------------------------------------------------------------------
(* spark.read.json: the records of the matching files as a dataframe *)

read_json(files) == SetToBag(files)

-----------------------------------------------------------------------------
(* process_song_data *)

staging_songs_table(df) == df

\* songs_table without the songs of unknown year (year = 0)
songs_table_known_year(df) ==
  BagOfAll(LAMBDA r : [song_id |-> r.song_id, title |-> r.title,
                       artist_id |-> r.artist_id, year |-> r.year,
                       duration |-> r.duration],
           Where(df, {r \in BagToSet(df) : r.year # V(0)}))

songs_table(df) ==
  BagOfAll(LAMBDA r : [song_id |-> r.song_id, title |-> r.title,
                       artist_id |-> r.artist_id, year |-> r.year,
                       duration |-> r.duration], df)

artists_table(df) ==
  BagOfAll(LAMBDA r : [artist_id |-> r.artist_id, name |-> r.artist_name,
                       location |-> r.artist_location,
                       lattitude |-> r.artist_latitude,
                       longitude |-> r.artist_longitude],
           staging_songs_table(df))

-----------------------------------------------------------------------------
(* Calendar: datetime.fromtimestamp, strftime, and Spark's casts of the     *)
(* formatted strings back to a date or a timestamp.                        *)

\* the civil date of a day number (days since 1970-01-01), proleptic Gregorian
civil_from_days(z0) ==
  LET z == z0 + 719468
      era == z \div 146097
      doe == z - era * 146097
      yoe == (doe - doe \div 1460 + doe \div 36524 - doe \div 146096) \div 365
      doy == doe - (365 * yoe + yoe \div 4 - yoe \div 100)
      mp == (5 * doy + 2) \div 153
      d == doy - (153 * mp + 2) \div 5 + 1
      m == IF mp < 10 THEN mp + 3 ELSE mp - 9
      y == yoe + era * 400 + (IF m <= 2 THEN 1 ELSE 0)
  IN [year |-> y, month |-> m, day |-> d]

\* the day number of a civil date
days_from_civil(y0, m, d) ==
  LET y == IF m <= 2 THEN y0 - 1 ELSE y0
      era == y \div 400
      yoe == y - era * 400
      mp == IF m > 2 THEN m - 3 ELSE m + 9
      doy == (153 * mp + 2) \div 5 + d - 1
      doe == yoe * 365 + yoe \div 4 - yoe \div 100 + doy
  IN era * 146097 + doe - 719468

\* datetime.fromtimestamp(x/1000): the local broken-down time of ts = <<q, r>>;
\* the fraction r/1000 of a second stays in the microsecond field
fromtimestamp(x) ==
  LET secs == x[1]
      date == civil_from_days(secs \div 86400)
      sod == secs % 86400
  IN [year |-> date.year, month |-> date.month, day |-> date.day,
      hour |-> sod \div 3600, minute |-> (sod % 3600) \div 60, second |-> sod % 60,
      microsecond |-> x[2] * 1000]

Digits == <<"0", "1", "2", "3", "4", "5", "6", "7", "8", "9">>

Pad2(n) == <<Digits[((n \div 10) % 10) + 1], Digits[(n % 10) + 1]>>
Pad4(n) == Pad2(n \div 100) \o Pad2(n % 100)

\* strftime('%Y-%m-%d'), strftime('%Y-%m-%d %H:%M:%S')
strftime_date(dt) == Pad4(dt.year) \o <<"-">> \o Pad2(dt.month) \o <<"-">> \o Pad2(dt.day)
strftime_datetime(dt) ==
  strftime_date(dt) \o <<" ">> \o Pad2(dt.hour) \o <<":">> \o Pad2(dt.minute)
                    \o <<":">> \o Pad2(dt.second)

get_timestamp(x) == strftime_datetime(fromtimestamp(x))
get_datetime(x) == strftime_date(fromtimestamp(x))

DigitValue(c) == CHOOSE n \in 0..9 : Digits[n + 1] = c

RECURSIVE ToInt(_)
ToInt(s) ==
  IF s = <<>> THEN 0
  ELSE 10 * ToInt(SubSeq(s, 1, Len(s) - 1)) + DigitValue(s[Len(s)])

\* Spark's cast of a string column to a date: the yyyy-MM-dd prefix
cast_date(s) ==
  [year |-> ToInt(SubSeq(s, 1, 4)), month |-> ToInt(SubSeq(s, 6, 7)),
   day |-> ToInt(SubSeq(s, 9, 10))]

\* Spark's cast of a string column to a timestamp: a string with no time part
\* is midnight of that date
cast_timestamp(s) ==
  [year |-> ToInt(SubSeq(s, 1, 4)), month |-> ToInt(SubSeq(s, 6, 7)),
   day |-> ToInt(SubSeq(s, 9, 10)),
   hour |-> IF Len(s) >= 13 THEN ToInt(SubSeq(s, 12, 13)) ELSE 0,
   minute |-> IF Len(s) >= 16 THEN ToInt(SubSeq(s, 15, 16)) ELSE 0,
   second |-> IF Len(s) >= 19 THEN ToInt(SubSeq(s, 18, 19)) ELSE 0]

extract_hour(s) == cast_timestamp(s).hour
extract_day(s) == cast_date(s).day
extract_month(s) == cast_date(s).month
extract_year(s) == cast_date(s).year

\* dayofweek: 1 = Sunday, ..., 7 = Saturday (1970-01-01 was a Thursday)
extract_dayofweek(s) ==
  LET d == cast_date(s)
  IN ((days_from_civil(d.year, d.month, d.day) + 4) % 7) + 1

\* week: the ISO 8601 week number, the week of the Thursday of the date's week
extract_week(s) ==
  LET d == cast_date(s)
      n == days_from_civil(d.year, d.month, d.day)
      thursday == n - ((n + 3) % 7) + 3
      y == civil_from_days(thursday).year
  IN (thursday - days_from_civil(y, 1, 1)) \div 7 + 1

-----------------------------------------------------------------------------
(* process_log_data *)

select_filtered(r) ==
  [artist |-> r.artist, firstName |-> r.firstName, gender |-> r.gender,
   lastName |-> r.lastName, length |-> r.length, level |-> r.level,
   location |-> r.location, sessionId |-> r.sessionId, song |-> r.song,
   ts |-> r.ts, userAgent |-> r.userAgent, userId |-> r.userId]

\* filtered_df without the filter on page
filtered_df_unfiltered(df) == Distinct(BagOfAll(select_filtered, df))

\* filtered_df with dropDuplicates applied before select
filtered_df_dedup_first(df) ==
  BagOfAll(select_filtered,
           Distinct(Where(df, {r \in BagToSet(df) : SqlEq(r.page, V("NextSong"))})))

filtered_df(df) ==
  Distinct(BagOfAll(select_filtered,
                    Where(df, {r \in BagToSet(df) : SqlEq(r.page, V("NextSong"))})))

\* user_table with the rows deduplicated
user_table_distinct(filtered) ==
  Distinct(BagOfAll(LAMBDA r : [userId |-> r.userId, firstName |-> r.firstName,
                                lastName |-> r.lastName, gender |-> r.gender,
                                level |-> r.level], filtered))

user_table(filtered) ==
  BagOfAll(LAMBDA r : [userId |-> r.userId, firstName |-> r.firstName,
                       lastName |-> r.lastName, gender |-> r.gender,
                       level |-> r.level], filtered)

\* filtered_df with the columns timestamp and datetime
staging_events_table(filtered) ==
  BagOfAll(LAMBDA r : [artist |-> r.artist, firstName |-> r.firstName,
                       gender |-> r.gender, lastName |-> r.lastName,
                       length |-> r.length, level |-> r.level,
                       location |-> r.location, sessionId |-> r.sessionId,
                       song |-> r.song, ts |-> r.ts, userAgent |-> r.userAgent,
                       userId |-> r.userId,
                       timestamp |-> get_timestamp(r.ts),
                       datetime |-> get_datetime(r.ts)], filtered)

time_table(events) ==
  Distinct(BagOfAll(LAMBDA r : [start_time |-> r.timestamp,
                                hour |-> extract_hour(r.datetime),
                                day |-> extract_day(r.datetime),
                                week |-> extract_week(r.datetime),
                                month |-> extract_month(r.datetime),
                                year |-> extract_year(r.datetime),
                                weekday |-> extract_dayofweek(r.timestamp)],
                    events))

\* the three inner joins of the songplays query: a bag of <<e, s, a, t>>, each
\* combination as often as the product of its rows' multiplicities
songplays_join(events, songs, artists, time) ==
  LET matches == {j \in BagToSet(events) \X BagToSet(songs)
                          \X BagToSet(artists) \X BagToSet(time) :
                    /\ SqlEq(j[1].song, j[2].title)
                    /\ SqlEq(j[1].length, j[2].duration)
                    /\ SqlEq(j[1].artist, j[3].name)
                    /\ SqlEq(j[3].artist_id, j[2].artist_id)
                    /\ j[1].timestamp = j[4].start_time}
  IN [j \in matches |-> events[j[1]] * songs[j[2]] * artists[j[3]] * time[j[4]]]

songplays_row(j) ==
  [start_time |-> j[1].timestamp, user_id |-> j[1].userId, level |-> j[1].level,
   song_id |-> j[2].song_id, artist_id |-> j[2].artist_id,
   session_id |-> j[1].sessionId, location |-> j[1].location,
   user_agent |-> j[1].userAgent, year |-> j[4].year, month |-> j[4].month]

songplays_table(events, songs, artists, time) ==
  BagOfAll(songplays_row, songplays_join(events, songs, artists, time))

-----------------------------------------------------------------------------
(* State *)

Tables == {"songs", "artists", "users", "time", "songplays"}

Init ==
  /\ song_data = {}
  /\ log_data = {}
  /\ store = [t \in Tables |-> EmptyBag]
  /\ pc = "idle"
  /\ failed_at = "none"
  /\ runs = 0

-----------------------------------------------------------------------------
(* The dataframes of the run in progress, from the input it reads *)

song_df == read_json(song_data)
log_df == read_json(log_data)

filtered_events == filtered_df(log_df)
events_view == staging_events_table(filtered_events)
songs_out == songs_table(song_df)
artists_out == artists_table(song_df)
users_out == user_table(filtered_events)
time_out == time_table(events_view)
joined == songplays_join(events_view, staging_songs_table(song_df), artists_out, time_out)
songplays_out ==
  songplays_table(events_view, staging_songs_table(song_df), artists_out, time_out)

-----------------------------------------------------------------------------
(* Operations *)

\* main: a run starts with the job's input as it is at that moment
main(songInputs, logInputs, limit) ==
  /\ pc \in {"idle", "success", "failed"}
  /\ runs < limit
  /\ \E s \in songInputs, l \in logInputs : song_data' = s /\ log_data' = l
  /\ pc' = "songs"
  /\ failed_at' = "none"
  /\ runs' = runs + 1
  /\ UNCHANGED store

\* next_write with the time table written before the users table
next_write_time_first(path) ==
  CASE path = "songs" -> "artists"
    [] path = "artists" -> "time"
    [] path = "time" -> "users"
    [] path = "users" -> "songplays"
    [] path = "songplays" -> "success"

\* the table written after a table, by the order of the statements
next_write(path) ==
  CASE path = "songs" -> "artists"
    [] path = "artists" -> "users"
    [] path = "users" -> "time"
    [] path = "time" -> "songplays"
    [] path = "songplays" -> "success"

\* write with mode('append'): the rows are added to the stored table
write_append(path, table) ==
  /\ pc = path
  /\ \/ /\ store' = [store EXCEPT ![path] = store[path] (+) table]
        /\ pc' = next_write(path)
        /\ UNCHANGED failed_at
     \/ /\ \E left \in {store[path], EmptyBag} : store' = [store EXCEPT ![path] = left]
        /\ pc' = "failed"
        /\ failed_at' = path
  /\ UNCHANGED <<song_data, log_data, runs>>

\* table.write.mode('overwrite').parquet(path): the stored table is replaced; a
\* failed write raises, nothing catches it and the run ends there, the table
\* under the path left as it was or already emptied
write(path, table) ==
  /\ pc = path
  /\ \/ /\ store' = [store EXCEPT ![path] = table]
        /\ pc' = next_write(path)
        /\ UNCHANGED failed_at
     \/ /\ \E left \in {store[path], EmptyBag} : store' = [store EXCEPT ![path] = left]
        /\ pc' = "failed"
        /\ failed_at' = path
  /\ UNCHANGED <<song_data, log_data, runs>>

WriteSongs == write("songs", songs_out)
WriteArtists == write("artists", artists_out)
WriteUsers == write("users", users_out)
WriteTime == write("time", time_out)
WriteSongplays == write("songplays", songplays_out)

process_song_data == WriteSongs \/ WriteArtists
process_log_data == WriteUsers \/ WriteTime \/ WriteSongplays

\* one run over any input of at most MaxSongRecords and MaxLogEvents records
RunOnce == main(UpTo(SongRecords, MaxSongRecords), UpTo(LogEvents, MaxLogEvents), 1)

Next == RunOnce \/ process_song_data \/ process_log_data

Spec == Init /\ [][Next]_vars

\* up to MaxRuns runs, one after the other, each over one of a few inputs
RerunSongData == {{R1, R4}, {R2, R3}}
RerunLogData == {{E1, E3}, {E2, E4, E6}}

Rerun == main(RerunSongData, RerunLogData, MaxRuns)

NextRerun == Rerun \/ process_song_data \/ process_log_data

SpecRerun == Init /\ [][NextRerun]_vars

-----------------------------------------------------------------------------
(* Properties *)

\* the position of a table in the run, and of the run itself
Rank(p) ==
  CASE p = "songs" -> 1
    [] p = "artists" -> 2
    [] p = "users" -> 3
    [] p = "time" -> 4
    [] p = "songplays" -> 5
    [] p = "success" -> 6
    [] OTHER -> 0

\* table t has been written by the run in progress (or just ended)
Written(t) == Rank(t) < (IF pc = "failed" THEN Rank(failed_at) ELSE Rank(pc))

\* the table a run derives from its input
Derived(t) ==
  CASE t = "songs" -> songs_out
    [] t = "artists" -> artists_out
    [] t = "users" -> users_out
    [] t = "time" -> time_out
    [] t = "songplays" -> songplays_out

IsNextSong(e) == e.page = V("NextSong")

\* the sum of f over the set S
RECURSIVE SumOver(_, _)
SumOver(f, S) ==
  IF S = {} THEN 0
  ELSE LET x == CHOOSE y \in S : TRUE IN f[x] + SumOver(f, S \ {x})

\* the songplays rows that come from the row e of the events view
RowsFrom(e) == SumOver(joined, {j \in BagToSet(joined) : j[1] = e})

\* the song record r has the title, duration and artist name of the event e
SongOf(r, e) ==
  /\ SqlEq(e.song, r.title)
  /\ SqlEq(e.length, r.duration)
  /\ SqlEq(e.artist, r.artist_name)

\* C1: when two song records share title and duration but differ in artist_id
\* and artist_name, and an event with that song and length names the artist of
\* the first and not of the second, no songplays row of that event carries the
\* song_id and artist_id of the second record.
C1_JoinDisambiguation ==
  \A r1 \in song_data, r2 \in song_data, e \in BagToSet(events_view) :
    ( /\ SqlEq(r1.title, r2.title)
      /\ SqlEq(r1.duration, r2.duration)
      /\ r1.artist_id # r2.artist_id
      /\ r1.artist_name # r2.artist_name
      /\ SongOf(r1, e)
      /\ ~SqlEq(e.artist, r2.artist_name) )
    => \A j \in BagToSet(joined) :
         j[1] = e => ~( /\ songplays_row(j).song_id = r2.song_id
                        /\ songplays_row(j).artist_id = r2.artist_id )

\* C2: an event whose (song, length) is the (title, duration) of no song record,
\* or whose song, length or artist is null, gives no songplays row; every
\* songplays row has a non-null song_id and artist_id, those of a song record
\* whose title, duration and artist name are the event's song, length and artist.
C2_NoMatchExclusion ==
  /\ \A e \in BagToSet(events_view) :
       ( \/ e.song = Null \/ e.length = Null \/ e.artist = Null
         \/ ~ \E r \in song_data : SqlEq(e.song, r.title) /\ SqlEq(e.length, r.duration) )
       => RowsFrom(e) = 0
  /\ \A j \in BagToSet(joined) :
       /\ songplays_row(j).song_id # Null
       /\ songplays_row(j).artist_id # Null
       /\ \E r \in song_data :
            /\ r.song_id = songplays_row(j).song_id
            /\ r.artist_id = songplays_row(j).artist_id
            /\ SongOf(r, j[1])

\* C3: every filtered event whose (song, length, artist) matches a song record
\* gives exactly one songplays row, and songplays has no more rows than
\* filtered_events.
C3_OneRowPerMatchedEvent ==
  /\ \A e \in BagToSet(events_view) :
       (\E r \in song_data : SongOf(r, e)) => RowsFrom(e) = 1
  /\ BagCardinality(songplays_out) <= BagCardinality(filtered_events)

\* C4: after a complete run every song_id of a songplays row is the song_id of
\* a songs row and every artist_id of a songplays row is the artist_id of an
\* artists row.
C4_ReferentialIntegrity ==
  pc = "success" =>
    \A r \in BagToSet(store["songplays"]) :
      /\ \E x \in BagToSet(store["songs"]) : x.song_id = r.song_id
      /\ \E a \in BagToSet(store["artists"]) : a.artist_id = r.artist_id

C4_Witness ==
  /\ pc = "success"
  /\ store["songplays"] # EmptyBag
  /\ Cardinality(BagToSet(store["songs"])) >= 2

\* C5: every row written to users, time and songplays comes from a log event
\* with page = "NextSong", and the three tables are those of the log without
\* its other events (an event with another page, or none, adds nothing).
C5_FilterCorrectness ==
  LET plays == {e \in log_data : IsNextSong(e)}
      f == filtered_df(read_json(plays))
      ev == staging_events_table(f)
  IN /\ Written("users") =>
          /\ \A u \in BagToSet(store["users"]) :
               \E e \in plays :
                 u = [userId |-> e.userId, firstName |-> e.firstName,
                      lastName |-> e.lastName, gender |-> e.gender,
                      level |-> e.level]
          /\ store["users"] = user_table(f)
     /\ Written("time") =>
          /\ \A t \in BagToSet(store["time"]) :
               \E e \in plays : t.start_time = get_timestamp(e.ts)
          /\ store["time"] = time_table(ev)
     /\ Written("songplays") =>
          /\ \A r \in BagToSet(store["songplays"]) :
               \E e \in plays :
                 /\ r.start_time = get_timestamp(e.ts)
                 /\ r.user_id = e.userId
                 /\ r.level = e.level
                 /\ r.session_id = e.sessionId
                 /\ r.location = e.location
                 /\ r.user_agent = e.userAgent
          /\ store["songplays"] =
               songplays_table(ev, staging_songs_table(song_df), artists_out,
                               time_table(ev))

C5_Witness ==
  /\ pc = "success"
  /\ \E e \in log_data : IsNextSong(e)
  /\ \E e \in log_data : e.page = V("Home")
  /\ \E e \in log_data : e.page = Null
  /\ store["songplays"] # EmptyBag

\* C6: filtered_events has exactly one row for each distinct combination of the
\* twelve selected fields among the NextSong events of the log.
C6_DedupCorrectness ==
  LET combos == {[artist |-> e.artist, firstName |-> e.firstName,
                  gender |-> e.gender, lastName |-> e.lastName,
                  length |-> e.length, level |-> e.level,
                  location |-> e.location, sessionId |-> e.sessionId,
                  song |-> e.song, ts |-> e.ts, userAgent |-> e.userAgent,
                  userId |-> e.userId] : e \in {x \in log_data : IsNextSong(x)}}
  IN /\ BagToSet(filtered_events) = combos
     /\ \A r \in combos : CopiesIn(r, filtered_events) = 1

C6_Witness ==
  /\ Written("users")
  /\ \E e1 \in log_data, e2 \in log_data, e3 \in log_data :
       /\ IsNextSong(e1) /\ IsNextSong(e2) /\ IsNextSong(e3)
       /\ e1 # e2
       /\ select_filtered(e1) = select_filtered(e2)
       /\ select_filtered(e1) # select_filtered(e3)
  /\ BagCardinality(filtered_events) = 2

\* C7: for every filtered event the time table has a row whose start_time is
\* the second floor(ts/1000) as YYYY-MM-DD HH:MM:SS and whose hour, day, month,
\* year and weekday are those of that instant.
C7_TimestampDecomposition ==
  Written("time") =>
    \A e \in BagToSet(filtered_events) :
      LET secs == e.ts[1]
          date == civil_from_days(secs \div 86400)
      IN \E t \in BagToSet(store["time"]) :
           /\ t.start_time = strftime_datetime(fromtimestamp(<<secs, 0>>))
           /\ t.hour = (secs % 86400) \div 3600
           /\ t.day = date.day
           /\ t.month = date.month
           /\ t.year = date.year
           /\ t.weekday = ((secs \div 86400 + 4) % 7) + 1

\* C8 as stated: users has exactly one row for each distinct (userId, firstName,
\* lastName, gender, level) of filtered_events, no two rows equal on all five.
C8_UsersGrainAsStated ==
  Written("users") =>
    /\ BagToSet(store["users"]) =
         {[userId |-> r.userId, firstName |-> r.firstName, lastName |-> r.lastName,
           gender |-> r.gender, level |-> r.level] : r \in BagToSet(filtered_events)}
    /\ \A u \in BagToSet(store["users"]) : CopiesIn(u, store["users"]) = 1

\* C8 amended: users has one row for each row of filtered_events, its (userId,
\* firstName, lastName, gender, level): each distinct tuple as often as there
\* are filtered events with it, so at least once.
C8_UsersGrain ==
  Written("users") =>
    LET tuples == {[userId |-> r.userId, firstName |-> r.firstName,
                    lastName |-> r.lastName, gender |-> r.gender,
                    level |-> r.level] : r \in BagToSet(filtered_events)}
    IN /\ BagToSet(store["users"]) = tuples
       /\ \A u \in tuples :
            CopiesIn(u, store["users"]) =
              Cardinality({r \in BagToSet(filtered_events) :
                             /\ r.userId = u.userId /\ r.firstName = u.firstName
                             /\ r.lastName = u.lastName /\ r.gender = u.gender
                             /\ r.level = u.level})
       /\ BagCardinality(store["users"]) = BagCardinality(filtered_events)

C8_Witness ==
  /\ Written("users")
  /\ \E u \in BagToSet(store["users"]) : CopiesIn(u, store["users"]) = 2
  /\ \E u1 \in BagToSet(store["users"]), u2 \in BagToSet(store["users"]) :
       u1.userId = u2.userId /\ u1.level # u2.level

\* C9: after every complete run each stored table is the table derived from the
\* input of that run alone.
C9_IdempotentOverwrite ==
  pc = "success" => \A t \in Tables : store[t] = Derived(t)

C9_Witness ==
  /\ pc = "success"
  /\ runs = 2
  /\ \A t \in Tables : store[t] # EmptyBag

\* C10: the tables are written in the order songs, artists, users, time,
\* songplays; a step of the run writes the one table that is due and leaves the
\* others as they are; a failed write ends the run at that table; a new run
\* starts only from an ended run and changes no table; the tables already
\* written in a run hold what the run derives, also after a failure, and a run
\* that succeeded has written all five.
C10_Step ==
  LET order == <<"songs", "artists", "users", "time", "songplays", "success">>
  IN /\ \A i \in 1..5 :
          pc = order[i] =>
            /\ \A t \in Tables \ {order[i]} : store'[t] = store[t]
            /\ \/ /\ pc' = order[i + 1]
                  /\ store'[order[i]] = Derived(order[i])
               \/ /\ pc' = "failed"
                  /\ failed_at' = order[i]
     /\ pc \in {"idle", "success", "failed"} => (pc' = "songs" /\ store' = store)

C10_WriteOrderAndFailure ==
  /\ [][C10_Step]_vars
  /\ [](\A t \in Tables : Written(t) => store[t] = Derived(t))
  /\ [](pc = "success" => \A t \in Tables : Written(t))

C10_Witness ==
  /\ pc = "failed"
  /\ failed_at = "users"
  /\ runs = 2
  /\ store["songs"] = songs_out
  /\ store["artists"] = artists_out
  /\ store["time"] # EmptyBag
  /\ store["time"] # time_out
  /\ store["songplays"] # songplays_out

====
